---- MODULE Spec2Model ----
(***************************************************************************)
(* Model of the happX1 task scheduler: the task store (gorm over MySQL),   *)
(* the Scheduler (cron entries, one-shot goroutines, ExecuteTask) and the  *)
(* TaskService operations that call it.                                    *)
(***************************************************************************)
EXTENDS Integers, Sequences, FiniteSets, TLC

\* ---------------------------------------------------------------- bounds
MaxTime == 2
MaxOps == 3
MaxRetry == 2
MaxRuns == 2

\* ------------------------------------------------------ program constants
TaskTypeOnce == 1
TaskTypeCron == 2
DefaultRetryTimes == 3
DefaultTimeout == 60
DefaultRetryDelay == 5
StatusEnabled == 1
StatusDisabled == 0
ZeroTime == 0

\* ------------------------------------------------------------ input sets
Names == {"a", "b"}
NameOrd == [n \in Names |-> IF n = "a" THEN 1 ELSE 2]
Commands == {"c1", "c2"}
\* a schedule field: an RFC3339 time (k = "time", v the instant), a cron
\* descriptor such as "@every 1s" (k = "desc", v the period), a 5-field
\* expression (k = "std5"), a 6-field expression (k = "sec6"), or text that
\* no parser accepts (k = "bad")
SpecTime(v) == [k |-> "time", v |-> v]
SpecEvery(v) == [k |-> "desc", v |-> v]
SpecStd5 == [k |-> "std5", v |-> 1]
SpecSec6 == [k |-> "sec6", v |-> 1]
\* the (type, schedule) pairs of the jobs handed to AddTask and CreateTask:
\* a Once job due later, a Cron job both parsers accept, a Cron job that
\* ParseStandard accepts and the cron instance rejects, and a type that is
\* neither Once nor Cron
KindInputs ==
    {<<TaskTypeOnce, SpecTime(2)>>, <<TaskTypeCron, SpecEvery(1)>>,
     <<TaskTypeCron, SpecStd5>>, <<3, SpecEvery(1)>>}

\* callback body templates: the one of the documentation,
\* "task ${task_id} ${status}", one with a variable that is not supported,
\* "${x}", and "${name}"
TemplateExample ==
    <<"t", "a", "s", "k", " ", "$", "{", "t", "a", "s", "k", "_", "i", "d", "}",
      " ", "$", "{", "s", "t", "a", "t", "u", "s", "}">>
TemplateBogus == <<"$", "{", "x", "}">>
TemplateName == <<"$", "{", "n", "a", "m", "e", "}">>
\* the (callback url, callback body) pairs of the jobs handed to CreateTask
\* and UpdateTask
CallbackInputs ==
    {<<"", <<>>>>, <<"", TemplateBogus>>, <<"u", TemplateBogus>>,
     <<"u", TemplateExample>>}
\* the values given for timeout, retry_times and retry_delay
NumberInputs == {-1, 0, 2}

VARIABLES
    now,        \* wall clock
    tasks,      \* rows of the tasks table, index = primary key
    heap,       \* model.Task structs captured by triggers and manual runs
    entries,    \* entries of the cron instance
    cronNext,   \* last EntryID handed out by the cron instance
    oneShots,   \* sleeping one-shot goroutines
    firings,    \* ExecuteTask invocations
    logs,       \* rows of the task_logs table
    stats,      \* rows of the task_stats table, keyed by task id
    opCount,    \* number of API calls and trigger firings made
    last        \* the last of them and its result

vars == <<now, tasks, heap, entries, cronNext, oneShots, firings, logs, stats,
          opCount, last>>

\* ----------------------------------------------------------------- store
\* rows a query on the Task model sees: deleted_at IS NULL
Live(rows) == {i \in DOMAIN rows : rows[i].DeletedAt = ZeroTime}

\* WHERE name = ? on the Task model (soft-deleted rows are filtered out)
CountByName(rows, name) == Cardinality({i \in Live(rows) : rows[i].Name = name})

\* no unique index on tasks.name
NameIndexMissing(rows, name) == TRUE

\* the unique index on tasks.name covers every row, soft-deleted or not
NameIndexFree(rows, name) == \A i \in DOMAIN rows : rows[i].Name # name

\* gorm writes the column default instead of a zero value on INSERT, and
\* sets it back into the struct
ApplyDefaults(t) ==
    [t EXCEPT !.Status = IF @ = 0 THEN StatusEnabled ELSE @,
              !.Timeout = IF @ = 0 THEN DefaultTimeout ELSE @,
              !.RetryTimes = IF @ = 0 THEN DefaultRetryTimes ELSE @,
              !.RetryDelay = IF @ = 0 THEN DefaultRetryDelay ELSE @]

\* db.Create(task): [ok, rows, t]
DbCreate(rows, t) ==
    IF t.ID # 0 \/ ~NameIndexFree(rows, t.Name)
    THEN [ok |-> FALSE, rows |-> rows, t |-> t]
    ELSE LET t1 == [ApplyDefaults(t) EXCEPT !.ID = Len(rows) + 1]
         IN [ok |-> TRUE, rows |-> Append(rows, t1), t |-> t1]

\* db.Save(task) on a struct with a primary key: UPDATE of all columns of
\* the live row; when no live row matches, the outcome depends on the gorm
\* release (nothing written, or the row written back by an upsert), chosen
\* by the caller through `upsert`
DbSave(rows, t, upsert) ==
    IF t.ID \in Live(rows)
    THEN IF \E i \in DOMAIN rows : i # t.ID /\ rows[i].Name = t.Name
         THEN [ok |-> FALSE, rows |-> rows]
         ELSE [ok |-> TRUE, rows |-> [rows EXCEPT ![t.ID] = t]]
    ELSE IF t.ID \in DOMAIN rows /\ upsert
              /\ ~\E i \in DOMAIN rows : i # t.ID /\ rows[i].Name = t.Name
         THEN [ok |-> TRUE, rows |-> [rows EXCEPT ![t.ID] = ApplyDefaults(t)]]
         ELSE [ok |-> TRUE, rows |-> rows]

\* ------------------------------------------------------------- schedules
\* time.Parse(time.RFC3339, task.Spec)
TimeParses(spec) == spec.k = "time"

\* the scheduler's cron instance is built with cron.WithSeconds(): its
\* parser takes 6-field expressions and descriptors
CronAccepts(spec) == spec.k \in {"sec6", "desc"}

\* utils.ParseCron uses cron.ParseStandard: 5-field expressions and descriptors
ParseCron(spec) == spec.k \in {"std5", "desc"}

\* Schedule.Next(t) of an accepted expression
ScheduleNext(spec, t) == t + spec.v

\* cron.Entry(id): the entry with that EntryID, or the zero Entry
CronEntry(es, id) ==
    IF \E e \in es : e.id = id
    THEN CHOOSE e \in es : e.id = id
    ELSE [id |-> 0, ptr |-> 0, spec |-> SpecTime(ZeroTime), next |-> ZeroTime]

\* cron.Remove(id)
CronRemove(es, id) == {e \in es : e.id # id}

\* ------------------------------------------------------ Scheduler.AddTask
\* S is the part of the state AddTask works on:
\* [tasks, heap, entries, cronNext, oneShots]; the result carries the error
\* ("none" for nil), the new state and the caller's struct after the call
AddTask(S, t, clock) ==
    IF CountByName(S.tasks, t.Name) > 0
    THEN [err |-> "exists", S |-> S, t |-> t]
    ELSE
      LET c == DbCreate(S.tasks, t) IN
      IF ~c.ok
      THEN [err |-> "create", S |-> S, t |-> t]
      ELSE
        LET S1 == [S EXCEPT !.tasks = c.rows]
            t1 == c.t
            p == Len(S.heap) + 1
        IN
        IF t1.Type = TaskTypeOnce
        THEN IF ~TimeParses(t1.Spec)
             THEN [err |-> "parse", S |-> S1, t |-> t1]
             ELSE IF t1.Spec.v - clock < 0
             THEN [err |-> "expired", S |-> S1, t |-> t1]
             ELSE [err |-> "none",
                   S |-> [S1 EXCEPT !.heap = Append(@, t1),
                                    !.oneShots = @ \cup {[ptr |-> p, due |-> t1.Spec.v]}],
                   t |-> t1]
        ELSE IF t1.Type = TaskTypeCron
        THEN IF ~CronAccepts(t1.Spec)
             THEN [err |-> "parse", S |-> S1, t |-> t1]
             ELSE [err |-> "none",
                   S |-> [S1 EXCEPT !.heap = Append(@, t1),
                                    !.cronNext = @ + 1,
                                    !.entries = @ \cup {[id |-> S1.cronNext + 1, ptr |-> p,
                                                         spec |-> t1.Spec,
                                                         next |-> ScheduleNext(t1.Spec, clock)]}],
                   t |-> t1]
        ELSE [err |-> "type", S |-> S1, t |-> t1]

SchedState == [tasks |-> tasks, heap |-> heap, entries |-> entries,
               cronNext |-> cronNext, oneShots |-> oneShots]

SetSchedState(S) ==
    /\ tasks' = S.tasks
    /\ heap' = S.heap
    /\ entries' = S.entries
    /\ cronNext' = S.cronNext
    /\ oneShots' = S.oneShots

NewTask(name, type, spec, cmd, retry, status) ==
    [ID |-> 0, Name |-> name, Type |-> type, Spec |-> spec, Command |-> cmd,
     Status |-> status, LastRunTime |-> ZeroTime, NextRunTime |-> ZeroTime,
     Timeout |-> 1, RetryTimes |-> retry, RetryDelay |-> 1,
     CallbackURL |-> "", CallbackMethod |-> "", CallbackHeaders |-> "",
     CallbackBody |-> <<>>, DeletedAt |-> ZeroTime]

\* ------------------------------------------------------ Scheduler.RemoveTask
RemoveTask(S, t, upsert) ==
    LET es == IF t.Type = TaskTypeCron THEN CronRemove(S.entries, t.ID) ELSE S.entries
        t1 == [t EXCEPT !.Status = StatusDisabled]
        sv == DbSave(S.tasks, t1, upsert)
    IN [err |-> IF sv.ok THEN "none" ELSE "save",
        S |-> [S EXCEPT !.entries = es, !.tasks = sv.rows],
        t |-> t1]

\* ------------------------------------------------------ callback templates
\* text is a sequence of characters; the variable names of the callback data
KeyTaskId == <<"t", "a", "s", "k", "_", "i", "d">>
KeyName == <<"n", "a", "m", "e">>
KeyStatus == <<"s", "t", "a", "t", "u", "s">>
KeyOutput == <<"o", "u", "t", "p", "u", "t">>
KeyError == <<"e", "r", "r", "o", "r">>
KeyStartTime == <<"s", "t", "a", "r", "t", "_", "t", "i", "m", "e">>
KeyEndTime == <<"e", "n", "d", "_", "t", "i", "m", "e">>
KeyDuration == <<"d", "u", "r", "a", "t", "i", "o", "n">>
SupportedVars ==
    {KeyTaskId, KeyName, KeyStatus, KeyOutput, KeyError, KeyStartTime,
     KeyEndTime, KeyDuration}

\* fmt.Sprintf("${%s}", key)
Placeholder(key) == <<"$", "{">> \o key \o <<"}">>

\* the first index j >= p with body[j] = c, or 0
RECURSIVE IndexFrom(_, _, _)
IndexFrom(body, c, p) ==
    IF p > Len(body) THEN 0
    ELSE IF body[p] = c THEN p
    ELSE IndexFrom(body, c, p + 1)

\* regexp `\${[^}]+}`.FindAllString(body, -1), from position p on: the
\* variable names match[2 : len(match)-1] of the matches, leftmost first
\* and not overlapping
RECURSIVE VarNames(_, _)
VarNames(body, p) ==
    IF p + 3 > Len(body) THEN <<>>
    ELSE IF body[p] = "$" /\ body[p + 1] = "{" /\ body[p + 2] # "}"
              /\ IndexFrom(body, "}", p + 3) # 0
    THEN LET j == IndexFrom(body, "}", p + 3)
         IN <<SubSeq(body, p + 2, j - 1)>> \o VarNames(body, j + 1)
    ELSE VarNames(body, p + 1)

\* url.Parse fails on an invalid escape such as "%zz"
UrlParses(u) == u # "%zz"

\* json.Unmarshal of the headers text into map[string]string
JsonParses(h) == h = "{}"

\* --------------------------------------------------- TaskService validation
\* the checks on the callback fields, made only for a task with a callback URL
CallbackError(t) ==
    IF t.CallbackURL = "" THEN "none"
    ELSE IF ~UrlParses(t.CallbackURL) THEN "url"
    ELSE IF t.CallbackMethod \notin {"", "GET", "POST"} THEN "method"
    ELSE IF t.CallbackHeaders # "" /\ ~JsonParses(t.CallbackHeaders) THEN "headers"
    ELSE IF \E i \in DOMAIN VarNames(t.CallbackBody, 1) :
               VarNames(t.CallbackBody, 1)[i] \notin SupportedVars
    THEN "var"
    ELSE "none"

\* the checks CreateTask and UpdateTask make before touching the store:
\* [err, t] where t carries NextRunTime and the defaults set on the way
Validate(t, clock) ==
    IF t.Type # TaskTypeOnce /\ t.Type # TaskTypeCron
    THEN [err |-> "type", t |-> t]
    ELSE IF t.Type = TaskTypeOnce /\ ~TimeParses(t.Spec)
    THEN [err |-> "spec", t |-> t]
    ELSE IF t.Type = TaskTypeOnce /\ t.Spec.v < clock
    THEN [err |-> "past", t |-> t]
    ELSE IF t.Type = TaskTypeCron /\ ~ParseCron(t.Spec)
    THEN [err |-> "spec", t |-> t]
    ELSE IF CallbackError(t) # "none"
    THEN [err |-> CallbackError(t), t |-> t]
    ELSE [err |-> "none",
          t |-> IF t.Type = TaskTypeOnce THEN [t EXCEPT !.NextRunTime = t.Spec.v]
                ELSE t]

SetDefaults(t) ==
    [t EXCEPT !.Timeout = IF @ <= 0 THEN DefaultTimeout ELSE @,
              !.RetryTimes = IF @ < 0 THEN DefaultRetryTimes ELSE @,
              !.RetryDelay = IF @ < 0 THEN DefaultRetryDelay ELSE @]

\* ------------------------------------------------------------ API calls
\* what the last API call or trigger firing was, the task id it concerned,
\* the error it returned ("none" for nil), whether its input passes Validate,
\* and whether the input's name was the name of a stored task when the call
\* was made
Result(op, id, err, valid, dup) ==
    [op |-> op, id |-> id, err |-> err, valid |-> valid, dup |-> dup]

\* a direct call of Scheduler.AddTask with a fresh struct
DoAddTask(t) ==
    /\ LET r == AddTask(SchedState, t, now) IN
         /\ SetSchedState(r.S)
         /\ last' = Result("AddTask", r.t.ID, r.err, Validate(t, now).err = "none",
                         CountByName(tasks, t.Name) > 0)
    /\ opCount' = opCount + 1
    /\ UNCHANGED <<now, firings, logs, stats>>

\* TaskService.CreateTask
CreateTask(S, t, clock) ==
    LET v == Validate(t, clock) IN
    IF v.err # "none"
    THEN [err |-> v.err, S |-> S, t |-> t]
    ELSE LET t1 == SetDefaults(v.t)
             c == DbCreate(S.tasks, t1)
         IN IF ~c.ok
            THEN [err |-> "create", S |-> S, t |-> t1]
            ELSE AddTask([S EXCEPT !.tasks = c.rows], c.t, clock)

DoCreateTask(t) ==
    /\ LET r == CreateTask(SchedState, t, now) IN
         /\ SetSchedState(r.S)
         /\ last' = Result("CreateTask", r.t.ID, r.err, Validate(t, now).err = "none",
                         CountByName(tasks, t.Name) > 0)
    /\ opCount' = opCount + 1
    /\ UNCHANGED <<now, firings, logs, stats>>

\* TaskService.UpdateTask on the struct the handler loaded and bound
UpdateTask(S, t, clock) ==
    IF t.ID \notin Live(S.tasks)
    THEN [err |-> "missing", S |-> S, t |-> t]
    ELSE
      LET v == Validate(t, clock) IN
      IF v.err # "none"
      THEN [err |-> v.err, S |-> S, t |-> t]
      ELSE LET t1 == SetDefaults(v.t)
               sv == DbSave(S.tasks, t1, FALSE)
           IN IF ~sv.ok
              THEN [err |-> "save", S |-> S, t |-> t1]
              ELSE IF t1.Status = 1
                   THEN AddTask([S EXCEPT !.tasks = sv.rows], t1, clock)
                   ELSE [err |-> "none", S |-> [S EXCEPT !.tasks = sv.rows], t |-> t1]

\* the JSON body of an update request sets one field of the loaded task
Patch(f, n, c) == [f |-> f, n |-> n, c |-> c]
Patches ==
    {Patch("Status", StatusDisabled, ""), Patch("Status", StatusEnabled, ""),
     Patch("Command", 0, "c2")}

Bind(t, patch) ==
    CASE patch.f = "Status" -> [t EXCEPT !.Status = patch.n]
      [] patch.f = "Command" -> [t EXCEPT !.Command = patch.c]
      [] patch.f = "Timeout" -> [t EXCEPT !.Timeout = patch.n]
      [] patch.f = "RetryTimes" -> [t EXCEPT !.RetryTimes = patch.n]
      [] patch.f = "RetryDelay" -> [t EXCEPT !.RetryDelay = patch.n]
      [] patch.f = "Callback" -> [t EXCEPT !.CallbackURL = patch.c,
                                          !.CallbackBody = patch.b]

\* TaskHandler.UpdateTask: GetTask, bind the body, UpdateTask
DoUpdateTask(id, patch) ==
    /\ id \in Live(tasks)
    /\ LET t == Bind(tasks[id], patch)
           r == UpdateTask(SchedState, t, now)
       IN /\ SetSchedState(r.S)
          /\ last' = Result("UpdateTask", id, r.err, Validate(t, now).err = "none", TRUE)
    /\ opCount' = opCount + 1
    /\ UNCHANGED <<now, firings, logs, stats>>

\* TaskService.DeleteTask; db.Delete on a model with DeletedAt is a soft delete
DeleteTask(S, id, clock) ==
    IF id \notin Live(S.tasks)
    THEN [err |-> "missing", S |-> S]
    ELSE LET t == S.tasks[id]
             r == IF t.Status = 1 THEN RemoveTask(S, t, FALSE)
                  ELSE [err |-> "none", S |-> S, t |-> t]
         IN IF r.err # "none"
            THEN [err |-> r.err, S |-> r.S]
            ELSE [err |-> "none",
                  S |-> [r.S EXCEPT !.tasks = [@ EXCEPT ![id].DeletedAt = clock]]]

DoDeleteTask(id) ==
    /\ id \in Live(tasks)
    /\ LET r == DeleteTask(SchedState, id, now) IN
         /\ SetSchedState(r.S)
         /\ last' = Result("DeleteTask", id, r.err, TRUE, TRUE)
    /\ opCount' = opCount + 1
    /\ UNCHANGED <<now, firings, logs, stats>>

\* Scheduler.Start: AddTask for every stored task with status 1
RECURSIVE StartLoop(_, _, _)
StartLoop(S, ids, clock) ==
    IF ids = {} THEN S
    ELSE LET id == CHOOSE x \in ids : \A y \in ids : x <= y
         IN StartLoop(AddTask(S, S.tasks[id], clock).S, ids \ {id}, clock)

DoStart ==
    /\ SetSchedState(StartLoop(SchedState,
                               {i \in Live(tasks) : tasks[i].Status = 1}, now))
    /\ last' = Result("Start", 0, "none", TRUE, FALSE)
    /\ opCount' = opCount + 1
    /\ UNCHANGED <<now, firings, logs, stats>>

\* ------------------------------------------------ Scheduler.sendCallback
\* the sendCallback goroutine of a firing: pc is where it stands ("none":
\* never started), left the keys of callbackData the range loop has not
\* visited yet, body the text rendered so far, method the request method,
\* requests the number of requests handed to the HTTP client, result how
\* the delivery ended
NoCallback ==
    [pc |-> "none", left |-> {}, body |-> <<>>, method |-> "", requests |-> 0,
     result |-> "none"]

\* a dispatch that does not look at the callback URL
CallbackAlways(t) == TRUE

\* if task.CallbackURL != "" { go s.sendCallback(task, taskLog) }
CallbackDue(t) == t.CallbackURL # ""

\* strings.ReplaceAll(body, old, new) for a non-empty old, from position p on
RECURSIVE ReplaceAll(_, _, _, _)
ReplaceAll(body, old, new, p) ==
    IF p > Len(body) THEN <<>>
    ELSE IF p + Len(old) - 1 <= Len(body) /\ SubSeq(body, p, p + Len(old) - 1) = old
    THEN new \o ReplaceAll(body, old, new, p + Len(old))
    ELSE <<body[p]>> \o ReplaceAll(body, old, new, p + 1)

\* fmt.Sprintf("%v", n) of a number
DigitChar == <<"0", "1", "2", "3", "4", "5", "6", "7", "8", "9">>
RECURSIVE Digits(_)
Digits(n) ==
    IF n < 10 THEN <<DigitChar[n + 1]>>
    ELSE Digits(n \div 10) \o <<DigitChar[(n % 10) + 1]>>

\* the characters of the strings that occur as names and error texts; a job
\* may be named "${status}"
Text(str) ==
    CASE str = "a" -> <<"a">>
      [] str = "b" -> <<"b">>
      [] str = "${status}" -> <<"$", "{", "s", "t", "a", "t", "u", "s", "}">>
      [] str = "fail" -> <<"f", "a", "i", "l">>
      [] str = "timeout" -> <<"t", "i", "m", "e", "o", "u", "t">>
      [] OTHER -> <<>>

\* fmt.Sprintf("%v", value) for each entry of callbackData, from the task
\* and the completed log of the firing; the commands print nothing
CallbackData(t, f) ==
    [key \in SupportedVars |->
       CASE key = KeyTaskId -> Digits(t.ID)
         [] key = KeyName -> Text(t.Name)
         [] key = KeyStatus -> Digits(f.logStatus)
         [] key = KeyOutput -> <<>>
         [] key = KeyError -> Text(f.logError)
         [] key = KeyStartTime -> Digits(f.StartTime)
         [] key = KeyEndTime -> Digits(f.StartTime + f.Duration)
         [] key = KeyDuration -> Digits(f.Duration)]

\* sendCallback starts: the range loop runs only for a non-empty body
StartCallback(t) ==
    [NoCallback EXCEPT !.pc = IF t.CallbackBody # <<>> THEN "render" ELSE "send",
                       !.left = IF t.CallbackBody # <<>> THEN SupportedVars ELSE {},
                       !.body = t.CallbackBody]

\* one iteration of `for key, value := range callbackData`: the map is
\* visited in an order the runtime picks
RenderStep(k, key) ==
    /\ k \in DOMAIN firings
    /\ firings[k].cb.pc = "render"
    /\ key \in firings[k].cb.left
    /\ LET f == firings[k]
           c == f.cb
           v == CallbackData(heap[f.ptr], f)[key]
       IN firings' = [firings EXCEPT
                        ![k].cb.body = ReplaceAll(c.body, Placeholder(key), v, 1),
                        ![k].cb.left = c.left \ {key},
                        ![k].cb.pc = IF c.left = {key} THEN "send" ELSE "render"]
    /\ UNCHANGED <<now, tasks, heap, entries, cronNext, oneShots, logs, stats,
                   opCount, last>>

CallbackOutcomes == {"ok", "non2xx", "transport"}

\* the rest of sendCallback: headers, request, client.Do, status code;
\* outcome is what the HTTP client met
SendCallback(k, outcome) ==
    /\ k \in DOMAIN firings
    /\ firings[k].cb.pc = "send"
    /\ LET t == heap[firings[k].ptr]
           method == IF t.CallbackMethod = "" THEN "POST" ELSE t.CallbackMethod
       IN firings' = [firings EXCEPT
            ![k].cb = IF t.CallbackHeaders # "" /\ ~JsonParses(t.CallbackHeaders)
                      THEN [@ EXCEPT !.pc = "done", !.result = "badheaders"]
                      ELSE IF ~UrlParses(t.CallbackURL)
                      THEN [@ EXCEPT !.pc = "done", !.method = method,
                                     !.result = "badrequest"]
                      ELSE [@ EXCEPT !.pc = "done", !.method = method,
                                     !.requests = @ + 1, !.result = outcome]]
    /\ UNCHANGED <<now, tasks, heap, entries, cronNext, oneShots, logs, stats,
                   opCount, last>>

\* ------------------------------------------------------------ goroutines
\* a goroutine started with `go` and no deferred recover
NoRecover(src) == FALSE

\* the goroutines that start with defer utils.Recover(...): the one-shot
\* and cron closures of AddTask, the closure of RunTask, and sendCallback
HasRecover(src) == src \in {"once", "cron", "manual", "callback"}

\* where a panic leaves the goroutine: Recover logs it and the goroutine
\* ends; without a recover the process exits
AfterPanic(src) == IF HasRecover(src) THEN "recovered" ELSE "crashed"

\* a run made on the caller's goroutine has to wait for the runs in progress
RunsInline(fs) == \A k \in DOMAIN fs : fs[k].pc \in {"done", "recovered"}

\* go func() { ... s.ExecuteTask(task) }(): the run gets a goroutine of its
\* own, whatever the runs in progress are doing
Spawns(fs) == TRUE

\* ------------------------------------------------- Scheduler.ExecuteTask
\* a call ExecuteTask(task): ptr is the struct it was handed, src who
\* started it ("once", "cron" or "manual"); attempts, oks, timeouts and
\* lastOut record what the strategy did, trace the writes issued so far and
\* whether each succeeded
NewFiring(ptr, src, n, clock) ==
    [ptr |-> ptr, src |-> src,
     pc |-> IF 0 <= n THEN "loop" ELSE "log",
     i |-> 0, err |-> "none", RetryCount |-> 0,
     attempts |-> 0, oks |-> 0, timeouts |-> 0, sleeps |-> 0, lastOut |-> "none",
     StartTime |-> clock, Duration |-> 0, logStatus |-> 0, logError |-> "none",
     st |-> <<>>, trace |-> <<>>, cb |-> NoCallback]

Outcomes == {"ok", "fail", "timeout"}

\* a retry loop that sleeps at the start of every iteration
SleepsEveryIteration(i) == 1

\* the sleeps at the start of iteration i: time.Sleep(RetryDelay) when i > 0
Sleeps(i) == IF i > 0 THEN 1 ELSE 0

\* the retry loop with the bound i < task.RetryTimes
LoopStepOffByOne(f, n, outcome) ==
    LET f1 == [f EXCEPT !.sleeps = @ + Sleeps(f.i),
                        !.attempts = @ + 1,
                        !.timeouts = IF outcome = "timeout" THEN @ + 1 ELSE @,
                        !.lastOut = outcome]
    IN IF outcome = "ok"
       THEN [f1 EXCEPT !.err = "none", !.oks = @ + 1, !.pc = "log"]
       ELSE [f1 EXCEPT !.err = outcome,
                       !.RetryCount = f.i,
                       !.i = f.i + 1,
                       !.pc = IF f.i + 1 < n THEN "loop" ELSE "log"]

\* one iteration of the retry loop; outcome is what the strategy did
LoopStep(f, n, outcome) ==
    LET f1 == [f EXCEPT !.sleeps = @ + Sleeps(f.i),
                        !.attempts = @ + 1,
                        !.timeouts = IF outcome = "timeout" THEN @ + 1 ELSE @,
                        !.lastOut = outcome]
    IN IF outcome = "ok"
       THEN [f1 EXCEPT !.err = "none", !.oks = @ + 1, !.pc = "log"]
       ELSE [f1 EXCEPT !.err = outcome,
                       !.RetryCount = f.i,
                       !.i = f.i + 1,
                       !.pc = IF f.i + 1 <= n THEN "loop" ELSE "log"]

Attempt(k, outcome) ==
    /\ k \in DOMAIN firings
    /\ firings[k].pc = "loop"
    /\ firings' = [firings EXCEPT
                     ![k] = LoopStep(@, heap[firings[k].ptr].RetryTimes, outcome)]
    /\ UNCHANGED <<now, tasks, heap, entries, cronNext, oneShots, logs, stats,
                   opCount, last>>

HasStats(id) == id \in DOMAIN stats

\* the quotient float64(a) / float64(b) of two counters, as the fraction in
\* lowest terms
RECURSIVE GCD(_, _)
GCD(a, b) == IF b = 0 THEN a ELSE GCD(b, a % b)
Quotient(a, b) ==
    LET g == GCD(a, b) IN [num |-> a \div g, den |-> b \div g]

\* the zero value of model.TaskStats
ZeroStats ==
    [TotalRuns |-> 0, SuccessRuns |-> 0, FailedRuns |-> 0, RetryCount |-> 0,
     TimeoutCount |-> 0, TotalDuration |-> 0, AvgDuration |-> [num |-> 0, den |-> 1]]

\* ExecuteTask with the task saved before the stats are updated
NextStepSaveFirst(pc, ok) ==
    CASE pc = "log" -> "save"
      [] pc = "save" -> "stats"
      [] pc = "stats" -> "done"

\* ExecuteTask returning at the first write that fails
NextStepStopsOnError(pc, ok) ==
    IF ~ok THEN "done"
    ELSE CASE pc = "log" -> "stats"
           [] pc = "stats" -> "save"
           [] pc = "save" -> "done"

\* the step ExecuteTask goes to after a write, whatever the write returned
\* (ok): the error of a failed write is printed and the function goes on
NextStep(pc, ok) ==
    CASE pc = "log" -> "stats"
      [] pc = "stats" -> "save"
      [] pc = "save" -> "done"

\* a log that always reports success
LogStatusAlwaysSuccess(err) == 1

\* taskLog.Status once the retry loop is over
LogStatus(err) == IF err # "none" THEN 0 ELSE 1

\* a firing that drops its log
LogCreateDropped(ls, row, ok) == ls

\* db.Create(taskLog); ok is whether the database took the row
LogCreate(ls, row, ok) == IF ok THEN Append(ls, row) ELSE ls

\* the log is completed and created, then the stats row is looked up
WriteLog(k, ok) ==
    /\ k \in DOMAIN firings
    /\ firings[k].pc = "log"
    /\ LET f == firings[k]
           id == heap[f.ptr].ID
           status == LogStatus(f.err)
           d == now - f.StartTime
       IN /\ logs' = LogCreate(logs,
                               [TaskID |-> id, Status |-> status,
                                RetryCount |-> f.RetryCount, Error |-> f.err,
                                Duration |-> d, firing |-> k],
                               ok)
          /\ firings' = [firings EXCEPT
                           ![k].pc = NextStep("log", ok),
                           ![k].logStatus = status,
                           ![k].logError = f.err,
                           ![k].Duration = d,
                           ![k].st = IF HasStats(id) THEN <<stats[id]>> ELSE <<>>,
                           ![k].trace = Append(@, [s |-> "log", ok |-> ok])]
    /\ UNCHANGED <<now, tasks, heap, entries, cronNext, oneShots, stats, opCount, last>>

\* the counters of a stats row without the average being recomputed
UpdatedStatsStaleAvg(st, f) ==
    [st EXCEPT !.TotalRuns = @ + 1,
               !.TotalDuration = @ + f.Duration,
               !.RetryCount = @ + f.RetryCount,
               !.SuccessRuns = IF f.logStatus = 1 THEN @ + 1 ELSE @,
               !.FailedRuns = IF f.logStatus = 1 THEN @ ELSE @ + 1,
               !.TimeoutCount = IF f.logError = "timeout" THEN @ + 1 ELSE @]

\* a stats update that counts every timed-out attempt and the retries made
UpdatedStatsPerAttempt(st, f) ==
    [st EXCEPT !.TotalRuns = @ + 1,
               !.TotalDuration = @ + f.Duration,
               !.AvgDuration = Quotient(st.TotalDuration + f.Duration, st.TotalRuns + 1),
               !.RetryCount = @ + f.i,
               !.SuccessRuns = IF f.logStatus = 1 THEN @ + 1 ELSE @,
               !.FailedRuns = IF f.logStatus = 1 THEN @ ELSE @ + 1,
               !.TimeoutCount = @ + f.timeouts]

\* the stats row after the run of f is added to it; the timeout counter
\* looks for the timeout message in taskLog.Error
UpdatedStats(st, f) ==
    [st EXCEPT !.TotalRuns = @ + 1,
               !.TotalDuration = @ + f.Duration,
               !.AvgDuration = Quotient(st.TotalDuration + f.Duration, st.TotalRuns + 1),
               !.RetryCount = @ + f.RetryCount,
               !.SuccessRuns = IF f.logStatus = 1 THEN @ + 1 ELSE @,
               !.FailedRuns = IF f.logStatus = 1 THEN @ ELSE @ + 1,
               !.TimeoutCount = IF f.logError = "timeout" THEN @ + 1 ELSE @]

\* whether the write of the stats row goes through: ok is whether the
\* database is up; a Create after a lookup that found no row fails on the
\* unique index of task_id when a row is there by now
StatsWritten(f, id, ok) == ok /\ ~(f.st = <<>> /\ HasStats(id))

\* the stats are updated in memory and written: created when the lookup
\* found no row, saved otherwise
WriteStats(k, ok) ==
    /\ k \in DOMAIN firings
    /\ firings[k].pc = "stats"
    /\ LET f == firings[k]
           id == heap[f.ptr].ID
           w == StatsWritten(f, id, ok)
       IN /\ stats' = IF ~w THEN stats
                      ELSE IF f.st = <<>>
                      THEN (id :> UpdatedStats(ZeroStats, f)) @@ stats
                      ELSE (id :> UpdatedStats(f.st[1], f)) @@ stats
          /\ firings' = [firings EXCEPT
                           ![k].pc = NextStep("stats", w),
                           ![k].st = <<>>,
                           ![k].trace = Append(@, [s |-> "stats", ok |-> w])]
    /\ UNCHANGED <<now, tasks, heap, entries, cronNext, oneShots, logs, opCount, last>>

\* ExecuteTask without the branch that disables a one-time task
FinishedTaskStaysEnabled(t, f, es) ==
    [t EXCEPT !.LastRunTime = f.StartTime,
              !.NextRunTime = CronEntry(es, t.ID).next]

\* the struct ExecuteTask saves once the run is over
FinishedTask(t, f, es) ==
    IF t.Type = TaskTypeOnce
    THEN [t EXCEPT !.LastRunTime = f.StartTime, !.Status = StatusDisabled]
    ELSE [t EXCEPT !.LastRunTime = f.StartTime,
                   !.NextRunTime = CronEntry(es, t.ID).next]

\* the task is saved, then the callback goroutine is started when the task
\* has a callback URL
SaveTask(k, upsert) ==
    /\ k \in DOMAIN firings
    /\ firings[k].pc = "save"
    /\ LET f == firings[k]
           t1 == FinishedTask(heap[f.ptr], f, entries)
           sv == DbSave(tasks, t1, upsert)
           saved == Append(f.trace, [s |-> "save", ok |-> sv.ok])
       IN /\ heap' = [heap EXCEPT ![f.ptr] = t1]
          /\ tasks' = sv.rows
          /\ firings' = [firings EXCEPT
                           ![k].pc = NextStep("save", sv.ok),
                           ![k].trace = IF CallbackDue(t1)
                                        THEN Append(saved, [s |-> "callback", ok |-> TRUE])
                                        ELSE saved,
                           ![k].cb = IF CallbackDue(t1) THEN StartCallback(t1)
                                     ELSE NoCallback]
    /\ UNCHANGED <<now, entries, cronNext, oneShots, logs, stats, opCount, last>>

\* TaskService.RunTask on the struct the handler loaded
DoRunTask(id) ==
    /\ id \in Live(tasks)
    /\ Spawns(firings)
    /\ heap' = Append(heap, tasks[id])
    /\ firings' = Append(firings,
                         NewFiring(Len(heap) + 1, "manual", tasks[id].RetryTimes, now))
    /\ last' = Result("RunTask", id, "none", TRUE, TRUE)
    /\ opCount' = opCount + 1
    /\ UNCHANGED <<now, tasks, entries, cronNext, oneShots, logs, stats>>

\* the strategy panics during an attempt of firing k
Panic(k) ==
    /\ k \in DOMAIN firings
    /\ firings[k].pc = "loop"
    /\ firings' = [firings EXCEPT ![k].pc = AfterPanic(firings[k].src)]
    /\ UNCHANGED <<now, tasks, heap, entries, cronNext, oneShots, logs, stats,
                   opCount, last>>

\* something inside sendCallback panics
PanicCallback(k) ==
    /\ k \in DOMAIN firings
    /\ firings[k].cb.pc \in {"render", "send"}
    /\ firings' = [firings EXCEPT ![k].cb.pc = AfterPanic("callback")]
    /\ UNCHANGED <<now, tasks, heap, entries, cronNext, oneShots, logs, stats,
                   opCount, last>>

\* -------------------------------------------------------------- triggers
\* the cron instance runs an entry that is due and schedules its next run
CronRun(e) ==
    /\ e \in entries
    /\ e.next <= now
    /\ Spawns(firings)
    /\ entries' = (entries \ {e}) \cup {[e EXCEPT !.next = ScheduleNext(e.spec, now)]}
    /\ firings' = Append(firings, NewFiring(e.ptr, "cron", heap[e.ptr].RetryTimes, now))
    /\ last' = Result("CronRun", heap[e.ptr].ID, "none", TRUE, TRUE)
    /\ opCount' = opCount + 1
    /\ UNCHANGED <<now, tasks, heap, cronNext, oneShots, logs, stats>>

\* a one-shot goroutine wakes up after its delay
OnceRun(o) ==
    /\ o \in oneShots
    /\ o.due <= now
    /\ Spawns(firings)
    /\ oneShots' = oneShots \ {o}
    /\ firings' = Append(firings, NewFiring(o.ptr, "once", heap[o.ptr].RetryTimes, now))
    /\ last' = Result("OnceRun", heap[o.ptr].ID, "none", TRUE, TRUE)
    /\ opCount' = opCount + 1
    /\ UNCHANGED <<now, tasks, heap, entries, cronNext, logs, stats>>

\* time passes; the cron instance never sleeps past a due entry
Tick ==
    /\ now < MaxTime
    /\ \A e \in entries : e.next > now
    /\ now' = now + 1
    /\ UNCHANGED <<tasks, heap, entries, cronNext, oneShots, firings, logs, stats,
                   opCount, last>>

\* ------------------------------------------------------- specifications
Init ==
    /\ now = 1
    /\ tasks = <<>>
    /\ heap = <<>>
    /\ entries = {}
    /\ cronNext = 0
    /\ oneShots = {}
    /\ firings = <<>>
    /\ logs = <<>>
    /\ stats = <<>>
    /\ opCount = 0
    /\ last = Result("none", 0, "none", TRUE, FALSE)

\* the names a caller can pick: every name some row carries and the first
\* name no row carries (names that no row carries are interchangeable)
NameInputs ==
    LET used == {tasks[i].Name : i \in DOMAIN tasks}
        free == Names \ used
    IN used \cup (IF free = {} THEN {}
                  ELSE {CHOOSE n \in free : \A m \in free : NameOrd[n] <= NameOrd[m]})

TaskInputs ==
    {NewTask(n, kd[1], kd[2], "c1", 1, 0) : n \in NameInputs, kd \in KindInputs}

\* jobs that differ in their timeout and retry settings and in their
\* callback, and update requests that set one of them
ConfigInputs ==
    {[NewTask("a", TaskTypeCron, SpecEvery(1), "c1", n, 0)
        EXCEPT !.Timeout = n, !.RetryDelay = n,
               !.CallbackURL = cb[1], !.CallbackBody = cb[2]] :
       n \in NumberInputs, cb \in CallbackInputs}

ConfigPatches ==
    {[f |-> f, n |-> n, c |-> "", b |-> <<>>] :
       f \in {"Timeout", "RetryTimes", "RetryDelay"}, n \in NumberInputs}
    \cup {[f |-> "Callback", n |-> 0, c |-> cb[1], b |-> cb[2]] :
            cb \in CallbackInputs}

\* CreateTask and UpdateTask requests only
NextConfig ==
    \/ opCount < MaxOps /\ \E t \in ConfigInputs : DoCreateTask(t)
    \/ opCount < MaxOps
         /\ \E id \in DOMAIN tasks, p \in ConfigPatches : DoUpdateTask(id, p)

\* no ExecuteTask call is in flight: Spec takes the runs one at a time, and
\* SpecOverlap explores runs that overlap
Idle == \A k \in DOMAIN firings : firings[k].pc \in {"done", "recovered"}

Next ==
    \/ opCount < MaxOps /\ \E t \in TaskInputs : DoAddTask(t)
    \/ opCount < MaxOps /\ \E t \in TaskInputs : DoCreateTask(t)
    \/ opCount < MaxOps /\ \E id \in DOMAIN tasks, p \in Patches : DoUpdateTask(id, p)
    \/ opCount < MaxOps /\ \E id \in DOMAIN tasks : DoDeleteTask(id)
    \/ opCount < MaxOps /\ DoStart
    \/ opCount < MaxOps /\ Idle /\ \E id \in DOMAIN tasks : DoRunTask(id)
    \/ \E k \in DOMAIN firings, o \in {"ok", "fail"} : Attempt(k, o)
    \/ \E k \in DOMAIN firings : WriteLog(k, TRUE)
    \/ \E k \in DOMAIN firings : WriteStats(k, TRUE)
    \/ \E k \in DOMAIN firings, u \in BOOLEAN : SaveTask(k, u)
    \/ opCount < MaxOps /\ Idle /\ \E e \in entries : CronRun(e)
    \/ opCount < MaxOps /\ Idle /\ \E o \in oneShots : OnceRun(o)
    \/ Tick

Spec == Init /\ [][Next]_vars

\* manual runs, one at a time, of one stored task (a Once job with a
\* callback URL or a Cron job without one): the retry loop and the writes
\* that follow it, for every retry count up to MaxRetry and every outcome of
\* an attempt
StoredTask(kd, n) ==
    [NewTask("a", kd[1], kd[2], "c1", n, StatusEnabled)
       EXCEPT !.ID = 1, !.CallbackURL = kd[3]]

InitExec ==
    /\ now = 1
    /\ \E kd \in {<<TaskTypeOnce, SpecTime(2), "u">>,
                   <<TaskTypeCron, SpecEvery(1), "">>},
          n \in 0..MaxRetry :
         tasks = <<StoredTask(kd, n)>>
    /\ heap = <<>>
    /\ entries = {}
    /\ cronNext = 0
    /\ oneShots = {}
    /\ firings = <<>>
    /\ logs = <<>>
    /\ stats = <<>>
    /\ opCount = 0
    /\ last = Result("none", 0, "none", TRUE, FALSE)

NextExec ==
    \/ Len(firings) < MaxRuns /\ Idle /\ \E id \in DOMAIN tasks : DoRunTask(id)
    \/ \E k \in DOMAIN firings, o \in Outcomes : Attempt(k, o)
    \/ \E k \in DOMAIN firings : WriteLog(k, TRUE)
    \/ \E k \in DOMAIN firings : WriteStats(k, TRUE)
    \/ \E k \in DOMAIN firings, u \in BOOLEAN : SaveTask(k, u)

SpecExec == InitExec /\ [][NextExec]_vars

\* one stored task without retries
InitNoRetry ==
    /\ now = 1
    /\ \E kd \in {<<TaskTypeOnce, SpecTime(2), "u">>,
                   <<TaskTypeCron, SpecEvery(1), "">>} :
         tasks = <<StoredTask(kd, 0)>>
    /\ heap = <<>>
    /\ entries = {}
    /\ cronNext = 0
    /\ oneShots = {}
    /\ firings = <<>>
    /\ logs = <<>>
    /\ stats = <<>>
    /\ opCount = 0
    /\ last = Result("none", 0, "none", TRUE, FALSE)

\* manual runs, one at a time, of that task, with a database that can
\* refuse the log and the stats write
NextWrites ==
    \/ Len(firings) < MaxRuns /\ Idle /\ \E id \in DOMAIN tasks : DoRunTask(id)
    \/ \E k \in DOMAIN firings, o \in {"ok", "fail"} : Attempt(k, o)
    \/ \E k \in DOMAIN firings, ok \in BOOLEAN : WriteLog(k, ok)
    \/ \E k \in DOMAIN firings, ok \in BOOLEAN : WriteStats(k, ok)
    \/ \E k \in DOMAIN firings, u \in BOOLEAN : SaveTask(k, u)

SpecWrites == InitNoRetry /\ [][NextWrites]_vars

\* manual runs of one stored task without retries that overlap in time
NextOverlap ==
    \/ Len(firings) < MaxRuns /\ \E id \in DOMAIN tasks : DoRunTask(id)
    \/ \E k \in DOMAIN firings, o \in {"ok", "fail"} : Attempt(k, o)
    \/ \E k \in DOMAIN firings : WriteLog(k, TRUE)
    \/ \E k \in DOMAIN firings : WriteStats(k, TRUE)
    \/ \E k \in DOMAIN firings, u \in BOOLEAN : SaveTask(k, u)

SpecOverlap == InitNoRetry /\ [][NextOverlap]_vars

SpecConfig == Init /\ [][NextConfig]_vars

\* one stored Cron job with a callback URL and a callback body template;
\* the job is named "a" or "${status}"
InitTemplate ==
    /\ now = 1
    /\ \E nm \in {"a", "${status}"}, tp \in {TemplateExample, TemplateName} :
         tasks = <<[StoredTask(<<TaskTypeCron, SpecEvery(1), "u">>, 0)
                      EXCEPT !.Name = nm, !.CallbackBody = tp]>>
    /\ heap = <<>>
    /\ entries = {}
    /\ cronNext = 0
    /\ oneShots = {}
    /\ firings = <<>>
    /\ logs = <<>>
    /\ stats = <<>>
    /\ opCount = 0
    /\ last = Result("none", 0, "none", TRUE, FALSE)

\* no sendCallback goroutine is at work
CallbacksIdle ==
    \A k \in DOMAIN firings : firings[k].cb.pc \notin {"render", "send"}

\* manual runs of the job, one at a time, each followed by its callback
NextTemplate ==
    \/ Len(firings) < MaxRuns /\ Idle /\ CallbacksIdle
         /\ \E id \in DOMAIN tasks : DoRunTask(id)
    \/ \E k \in DOMAIN firings, o \in {"ok", "fail"} : Attempt(k, o)
    \/ \E k \in DOMAIN firings : WriteLog(k, TRUE)
    \/ \E k \in DOMAIN firings : WriteStats(k, TRUE)
    \/ \E k \in DOMAIN firings, u \in BOOLEAN : SaveTask(k, u)
    \/ \E k \in DOMAIN firings, key \in SupportedVars : RenderStep(k, key)
    \/ \E k \in DOMAIN firings : SendCallback(k, "ok")

SpecTemplate == InitTemplate /\ [][NextTemplate]_vars

\* two jobs registered by Scheduler.AddTask a moment ago and now due: the
\* Cron job "a" (one retry) with its cron entry and the Once job "b" (no
\* retry) with its one-shot goroutine
InitTriggers ==
    /\ now = 1
    /\ LET a == [NewTask("a", TaskTypeCron, SpecEvery(1), "c1", 1, StatusEnabled)
                   EXCEPT !.ID = 1]
           b == [NewTask("b", TaskTypeOnce, SpecTime(1), "c1", 0, StatusEnabled)
                   EXCEPT !.ID = 2]
       IN /\ tasks = <<a, b>>
          /\ heap = <<a, b>>
    /\ entries = {[id |-> 1, ptr |-> 1, spec |-> SpecEvery(1), next |-> 1]}
    /\ cronNext = 1
    /\ oneShots = {[ptr |-> 2, due |-> 1]}
    /\ firings = <<>>
    /\ logs = <<>>
    /\ stats = <<>>
    /\ opCount = 0
    /\ last = Result("none", 0, "none", TRUE, FALSE)

\* trigger firings that overlap in time; every attempt fails, so each
\* firing of the Cron job goes through the sleep before its retry
NextTriggers ==
    \/ opCount < MaxOps /\ \E e \in entries : CronRun(e)
    \/ opCount < MaxOps /\ \E o \in oneShots : OnceRun(o)
    \/ \E k \in DOMAIN firings : Attempt(k, "fail")
    \/ \E k \in DOMAIN firings : WriteLog(k, TRUE)
    \/ \E k \in DOMAIN firings : WriteStats(k, TRUE)
    \/ \E k \in DOMAIN firings, u \in BOOLEAN : SaveTask(k, u)
    \/ Tick

SpecTriggers == InitTriggers /\ [][NextTriggers]_vars

\* one job registered by Scheduler.AddTask a moment ago and now due: a
\* Once job with a callback URL, an empty callback body and callback headers
\* that parse or do not, or a Cron job without a callback
InitUnits ==
    /\ now = 1
    /\ \E kd \in {<<TaskTypeOnce, SpecTime(1), "u", "{}">>,
                   <<TaskTypeOnce, SpecTime(1), "u", "bad">>,
                   <<TaskTypeCron, SpecEvery(1), "", "">>} :
         LET t == [StoredTask(kd, 0) EXCEPT !.CallbackHeaders = kd[4]]
         IN /\ tasks = <<t>>
            /\ heap = <<t>>
            /\ entries = IF kd[1] = TaskTypeCron
                         THEN {[id |-> 1, ptr |-> 1, spec |-> kd[2], next |-> 1]}
                         ELSE {}
            /\ cronNext = IF kd[1] = TaskTypeCron THEN 1 ELSE 0
            /\ oneShots = IF kd[1] = TaskTypeOnce
                          THEN {[ptr |-> 1, due |-> kd[2].v]}
                          ELSE {}
    /\ firings = <<>>
    /\ logs = <<>>
    /\ stats = <<>>
    /\ opCount = 0
    /\ last = Result("none", 0, "none", TRUE, FALSE)

\* the process is up: no panic went past its goroutine
Running ==
    \A k \in DOMAIN firings :
       firings[k].pc # "crashed" /\ firings[k].cb.pc # "crashed"

\* trigger firings and manual runs, one at a time, with callback deliveries
\* that go on while later runs are made; any of them may panic
NextUnits ==
    \/ Running /\ Len(firings) < MaxRuns /\ Idle /\ \E e \in entries : CronRun(e)
    \/ Running /\ Len(firings) < MaxRuns /\ Idle /\ \E o \in oneShots : OnceRun(o)
    \/ Running /\ Len(firings) < MaxRuns /\ Idle /\ \E id \in DOMAIN tasks : DoRunTask(id)
    \/ Running /\ \E k \in DOMAIN firings, o \in {"ok", "fail"} : Attempt(k, o)
    \/ Running /\ \E k \in DOMAIN firings : WriteLog(k, TRUE)
    \/ Running /\ \E k \in DOMAIN firings : WriteStats(k, TRUE)
    \/ Running /\ \E k \in DOMAIN firings, u \in BOOLEAN : SaveTask(k, u)
    \/ Running /\ \E k \in DOMAIN firings, o \in CallbackOutcomes : SendCallback(k, o)
    \/ Running /\ \E k \in DOMAIN firings : Panic(k)
    \/ Running /\ \E k \in DOMAIN firings : PanicCallback(k)
    \/ Running /\ Tick

SpecUnits == InitUnits /\ [][NextUnits]_vars

\* =================================================================== claims
\* the step is the API call or trigger firing named op
Called(op) == opCount' = opCount + 1 /\ last'.op = op

\* triggers (sleeping one-shot goroutines and cron entries) whose closure
\* runs the task with this id, in a state with heap h, one-shots os and
\* entries es
OneShotsIn(h, os, id) == {o \in os : h[o.ptr].ID = id}
EntriesIn(h, es, id) == {e \in es : h[e.ptr].ID = id}
TriggersIn(h, os, es, id) ==
    Cardinality(OneShotsIn(h, os, id)) + Cardinality(EntriesIn(h, es, id))
TriggerCount(id) == TriggersIn(heap, oneShots, entries, id)

\* C1: CreateTask with a job that passes validation and whose name no stored
\* job uses returns no error, and afterwards the job is stored and holds
\* exactly one armed trigger.
C1_CreateRegisters ==
    [][(Called("CreateTask") /\ last'.valid /\ ~last'.dup)
         => /\ last'.err = "none"
            /\ last'.id \in Live(tasks')
            /\ TriggersIn(heap', oneShots', entries', last'.id) = 1]_vars

\* the retry count of the task a firing runs, and the log row it wrote
RetryTimesOf(k) == heap[firings[k].ptr].RetryTimes
LogsOf(k) == {j \in DOMAIN logs : logs[j].firing = k}
LoopOver(k) == firings[k].pc # "loop"

\* C2: a firing of a job with retryTimes = n >= 0 whose strategy fails on
\* every attempt makes exactly n+1 attempts, and its log records
\* RetryCount = n.
C2_AllFail ==
    \A k \in DOMAIN firings :
        (LoopOver(k) /\ firings[k].oks = 0 /\ RetryTimesOf(k) >= 0)
          => /\ firings[k].attempts = RetryTimesOf(k) + 1
             /\ firings[k].RetryCount = RetryTimesOf(k)
             /\ \A j \in LogsOf(k) : logs[j].RetryCount = RetryTimesOf(k)

\* a firing of a job with at least one retry has failed on every attempt
\* and written its log
C2_Witness ==
    \E k \in DOMAIN firings :
        /\ firings[k].pc = "done"
        /\ firings[k].oks = 0
        /\ RetryTimesOf(k) >= 1
        /\ firings[k].attempts = RetryTimesOf(k) + 1
        /\ LogsOf(k) # {}

\* C3: a firing whose strategy fails on attempts 1..k-1 and succeeds on
\* attempt k <= n+1 makes exactly k attempts and produces a Success log
\* with RetryCount = k-1.
C3_SuccessAfterFailures ==
    \A k \in DOMAIN firings :
        (LoopOver(k) /\ firings[k].oks >= 1)
          => /\ firings[k].oks = 1
             /\ firings[k].attempts <= RetryTimesOf(k) + 1
             /\ firings[k].RetryCount = firings[k].attempts - 1
             /\ \A j \in LogsOf(k) :
                  logs[j].Status = 1 /\ logs[j].RetryCount = firings[k].attempts - 1

\* the step completes firing k (ExecuteTask saves the task and returns)
Completes(k) ==
    /\ k \in DOMAIN firings
    /\ firings[k].pc = "save"
    /\ firings'[k].pc = "done"

C5_RemovedOnceNeverRuns ==
    [][\A o \in oneShots :
         (o \notin oneShots' /\ Len(firings') = Len(firings) + 1)
           => ~(/\ tasks[heap[o.ptr].ID].DeletedAt # ZeroTime
                /\ tasks[heap[o.ptr].ID].DeletedAt < o.due)]_vars

\* C6: after DeleteTask of a registered Cron job (stored enabled, with a
\* cron entry) returns, no cron entry runs that job any more.
C6_CronEntryRemoved ==
    [][\A id \in DOMAIN tasks :
         (/\ Called("DeleteTask") /\ last'.id = id /\ last'.err = "none"
          /\ tasks[id].Type = TaskTypeCron
          /\ tasks[id].Status = StatusEnabled
          /\ EntriesIn(heap, entries, id) # {})
           => EntriesIn(heap', entries', id) = {}]_vars

\* C7: a stored job whose Status is 0 holds no active trigger: no pending
\* one-shot and no cron entry.
C7_DisabledHasNoTrigger ==
    \A id \in Live(tasks) :
        tasks[id].Status = StatusDisabled => TriggerCount(id) = 0

\* C8: each stored enabled job has exactly one trigger handle.
C8_OneTriggerPerEnabledJob ==
    \A id \in Live(tasks) :
        tasks[id].Status = StatusEnabled => TriggerCount(id) = 1

\* C9: UpdateTask on an existing enabled job with valid fields returns no
\* error and re-registers the job: afterwards the job has one trigger, and
\* the task that trigger runs has the stored schedule and command.
C9_UpdateReregisters ==
    [][\A id \in DOMAIN tasks :
         (/\ Called("UpdateTask") /\ last'.id = id /\ last'.valid
          /\ tasks[id].Status = StatusEnabled
          /\ tasks'[id].Status = StatusEnabled)
           => /\ last'.err = "none"
              /\ TriggersIn(heap', oneShots', entries', id) = 1
              /\ \A o \in OneShotsIn(heap', oneShots', id) :
                   /\ heap'[o.ptr].Spec = tasks'[id].Spec
                   /\ heap'[o.ptr].Command = tasks'[id].Command
              /\ \A e \in EntriesIn(heap', entries', id) :
                   /\ e.spec = tasks'[id].Spec
                   /\ heap'[e.ptr].Command = tasks'[id].Command]_vars

\* C10: AddTask or CreateTask with a name that a stored job already uses
\* returns an error, installs no trigger and leaves the task rows unchanged.
C10_DuplicateNameRejected ==
    [][((Called("AddTask") \/ Called("CreateTask")) /\ last'.dup)
         => /\ last'.err # "none"
            /\ tasks' = tasks
            /\ entries' = entries
            /\ oneShots' = oneShots
            /\ heap' = heap]_vars

\* CreateTask was called with a valid job whose name a stored job uses, and
\* failed
C10_Witness ==
    /\ last.op = "CreateTask"
    /\ last.dup
    /\ last.valid
    /\ last.err # "none"
    /\ Len(tasks) >= 1

\* C11: when Scheduler.AddTask fails because the type is unrecognized, the
\* schedule does not parse or a Once time is already past, the job is not
\* left in the store as an enabled row and no trigger exists for it.
C11_FailedAddLeavesNothing ==
    [][(Called("AddTask") /\ last'.err \in {"type", "parse", "expired"})
         => /\ \A i \in Live(tasks') \ Live(tasks) :
                 tasks'[i].Status # StatusEnabled
            /\ \A i \in DOMAIN tasks' \ DOMAIN tasks :
                 TriggersIn(heap', oneShots', entries', i) = 0]_vars

\* the timeout counter of the stats row of a task in the stats table st
\* (0 when the task has no row)
TimeoutCountIn(st, id) == IF id \in DOMAIN st THEN st[id].TimeoutCount ELSE 0

\* C12: a firing in which at least one attempt was aborted at its deadline
\* raises the job's TimeoutCount by exactly 1 when it updates the stats, also
\* when a later attempt of the firing succeeds or fails for another reason.
C12_TimeoutCountedOnce ==
    [][\A k \in DOMAIN firings :
         (/\ firings[k].pc = "stats"
          /\ firings'[k].pc # "stats"
          /\ firings[k].timeouts >= 1)
           => TimeoutCountIn(stats', heap[firings[k].ptr].ID)
                = TimeoutCountIn(stats, heap[firings[k].ptr].ID) + 1]_vars

\* C13: every stored stats row has TotalRuns >= 1 and
\* AvgDuration = TotalDuration / TotalRuns.
C13_AvgDuration ==
    \A id \in DOMAIN stats :
        /\ stats[id].TotalRuns >= 1
        /\ stats[id].AvgDuration.den >= 1
        /\ stats[id].AvgDuration.num * stats[id].TotalRuns
             = stats[id].TotalDuration * stats[id].AvgDuration.den

\* a stats row updated by two runs whose average duration is not a whole
\* number
C13_Witness ==
    \E id \in DOMAIN stats :
        /\ stats[id].TotalRuns >= 2
        /\ stats[id].TotalDuration % stats[id].TotalRuns # 0

\* firings that run the task id
FiringsOf(id) == {k \in DOMAIN firings : heap[firings[k].ptr].ID = id}

\* C14: once all started firings have completed, the TotalRuns of a job's
\* stats equals the number of its completed firings, also when the firings
\* overlap and when two of them are both the job's first run.
C14_EachRunCountedOnce ==
    (\A k \in DOMAIN firings : firings[k].pc = "done")
      => \A id \in DOMAIN tasks :
           FiringsOf(id) # {}
             => /\ HasStats(id)
                /\ stats[id].TotalRuns = Cardinality(FiringsOf(id))

\* the number of log creations a firing has issued
LogsIssued(k) ==
    Cardinality({i \in DOMAIN firings[k].trace : firings[k].trace[i].s = "log"})

\* C15: every firing, whoever started it, creates exactly one log, after
\* its retry loop: none while the loop runs, one from then on until and
\* after it finishes, however many attempts it made.
C15_OneLogPerFiring ==
    \A k \in DOMAIN firings :
        IF firings[k].pc \in {"loop", "log"}
        THEN LogsIssued(k) = 0 /\ LogsOf(k) = {}
        ELSE LogsIssued(k) = 1 /\ Cardinality(LogsOf(k)) = 1

\* a firing started by a cron entry has finished after two attempts and has
\* one log
C15_Witness ==
    \E k \in DOMAIN firings :
        /\ firings[k].src = "cron"
        /\ firings[k].pc = "done"
        /\ firings[k].attempts = 2
        /\ Cardinality(LogsOf(k)) = 1

\* the order of the writes of a firing
StepOrder == <<"log", "stats", "save", "callback">>

\* C16: within a firing the log is persisted first, then the stats are
\* updated, then the job's last/next-run state is saved, and the callback is
\* dispatched only after these three.
C16_StepOrder ==
    \A k \in DOMAIN firings :
        /\ Len(firings[k].trace) <= Len(StepOrder)
        /\ \A i \in DOMAIN firings[k].trace : firings[k].trace[i].s = StepOrder[i]

\* a firing of a job with a callback URL has written its log, its stats and
\* the job, and dispatched the callback
C16_Witness ==
    \E k \in DOMAIN firings :
        /\ firings[k].pc = "done"
        /\ Len(firings[k].trace) = 4
        /\ firings[k].trace[4].s = "callback"

\* the writes a firing has issued
Issued(k) == {firings[k].trace[i].s : i \in DOMAIN firings[k].trace}
\* the writes of a firing that failed
Failed(k) == {firings[k].trace[i].s : i \in {j \in DOMAIN firings[k].trace :
                                               ~firings[k].trace[j].ok}}

\* C17: a firing whose log write fails still goes on to the stats update,
\* the save of the job and (with a callback URL) the callback dispatch, and
\* a firing whose stats write fails still goes on to the save of the job.
C17_WriteFailuresDoNotStop ==
    \A k \in DOMAIN firings :
        /\ "log" \in Failed(k)
             => /\ firings[k].pc \in {"stats", "save", "done"}
                /\ firings[k].pc = "done"
                     => /\ {"stats", "save"} \subseteq Issued(k)
                        /\ heap[firings[k].ptr].CallbackURL # ""
                             => "callback" \in Issued(k)
        /\ "stats" \in Failed(k)
             => /\ firings[k].pc \in {"save", "done"}
                /\ firings[k].pc = "done" => "save" \in Issued(k)

\* a firing of a job with a callback URL has finished: its log write and
\* its stats write failed, the job was saved and the callback dispatched
C17_Witness ==
    \E k \in DOMAIN firings :
        /\ firings[k].pc = "done"
        /\ {"log", "stats"} \subseteq Failed(k)
        /\ LogsOf(k) = {}
        /\ {"save", "callback"} \subseteq Issued(k)
        /\ tasks[heap[firings[k].ptr].ID].LastRunTime = firings[k].StartTime

\* C18: the log of a firing has status Success exactly when the last
\* attempt succeeded; when all retryTimes+1 attempts failed the log has
\* status Failure and its error is the non-empty error of the last attempt
\* (the timeout error when that attempt hit its deadline).
C18_LogReflectsLastAttempt ==
    \A j \in DOMAIN logs :
        LET f == firings[logs[j].firing] IN
        f.attempts >= 1
          => /\ logs[j].Status = 1 <=> f.lastOut = "ok"
             /\ (f.oks = 0 /\ f.attempts = heap[f.ptr].RetryTimes + 1)
                  => /\ logs[j].Status = 0
                     /\ logs[j].Error # "none"
                     /\ logs[j].Error = f.lastOut

\* a firing whose attempts all failed, the last one at its deadline, after
\* an earlier failure of another kind, has written its log
C18_Witness ==
    \E j \in DOMAIN logs :
        LET f == firings[logs[j].firing] IN
        /\ f.oks = 0
        /\ f.attempts = heap[f.ptr].RetryTimes + 1
        /\ f.attempts >= 2
        /\ f.timeouts = 1
        /\ f.lastOut = "timeout"
        /\ logs[j].Error = "timeout"

\* C19: when a firing of a Cron job started by its cron entry completes,
\* the stored NextRunTime is the next activation time of the job's own
\* entry, however many jobs are registered and in whatever order.
C19_NextRunTimeOfOwnEntry ==
    [][\A k \in DOMAIN firings :
         (/\ Completes(k)
          /\ firings[k].src = "cron"
          /\ heap[firings[k].ptr].ID \in Live(tasks))
           => \E e \in EntriesIn(heap, entries, heap[firings[k].ptr].ID) :
                tasks'[heap[firings[k].ptr].ID].NextRunTime = e.next]_vars

\* C20: when a manual firing completes, the stored enabled flag of the job
\* is the one the handler loaded when it started the firing, and the job's
\* triggers are untouched, for Once and Cron jobs.
C20_ManualRunKeepsArmedState ==
    [][\A k \in DOMAIN firings :
         (/\ Completes(k)
          /\ firings[k].src = "manual"
          /\ heap[firings[k].ptr].ID \in Live(tasks))
           => /\ tasks'[heap[firings[k].ptr].ID].Status = heap[firings[k].ptr].Status
              /\ entries' = entries
              /\ oneShots' = oneShots]_vars

\* C21: the completion of a firing changes only LastRunTime, NextRunTime
\* and (for a Once job) Status of the stored job: every other stored field,
\* and the Status of a Cron job, keeps the value it had, which is the one
\* UpdateTask or RemoveTask wrote last.
C21_CompletionFrame ==
    [][\A k \in DOMAIN firings :
         (Completes(k) /\ heap[firings[k].ptr].ID \in Live(tasks))
           => LET id == heap[firings[k].ptr].ID IN
              /\ tasks'[id].Name = tasks[id].Name
              /\ tasks'[id].Type = tasks[id].Type
              /\ tasks'[id].Spec = tasks[id].Spec
              /\ tasks'[id].Command = tasks[id].Command
              /\ tasks'[id].RetryTimes = tasks[id].RetryTimes
              /\ tasks'[id].CallbackURL = tasks[id].CallbackURL
              /\ tasks[id].Type = TaskTypeCron
                   => tasks'[id].Status = tasks[id].Status]_vars

\* the schedule of a stored task is one the scheduler can arm at time clock
ValidSchedule(t, clock) ==
    \/ t.Type = TaskTypeOnce /\ TimeParses(t.Spec) /\ t.Spec.v >= clock
    \/ t.Type = TaskTypeCron /\ CronAccepts(t.Spec) /\ ParseCron(t.Spec)

\* C29: after Start returns without error, each stored job with status 1
\* and a valid schedule has an active trigger.
C29_StartArmsEnabledJobs ==
    [][(Called("Start") /\ last'.err = "none")
         => \A id \in Live(tasks') :
              (tasks'[id].Status = StatusEnabled /\ ValidSchedule(tasks'[id], now))
                => TriggersIn(heap', oneShots', entries', id) >= 1]_vars

\* C30: removing a Cron job leaves the triggers of every other job as they
\* were: a job armed before the removal is armed after it, with the same
\* one-shots and cron entries.
C30_RemovalLeavesOthers ==
    [][\A id \in DOMAIN tasks :
         (/\ Called("DeleteTask") /\ last'.id = id
          /\ tasks[id].Type = TaskTypeCron)
           => \A other \in DOMAIN tasks \ {id} :
                /\ EntriesIn(heap', entries', other) = EntriesIn(heap, entries, other)
                /\ OneShotsIn(heap', oneShots', other)
                     = OneShotsIn(heap, oneShots, other)]_vars

\* C28: the retry loop sleeps once before each attempt after the first and
\* never after the last one: a firing that has made m >= 1 attempts has
\* slept m - 1 times, and one that has made none has not slept.
C28_SleepsBetweenAttempts ==
    \A k \in DOMAIN firings :
       firings[k].sleeps = IF firings[k].attempts = 0 THEN 0
                           ELSE firings[k].attempts - 1

\* a finished firing that made several attempts, and another that succeeded
\* at its first attempt
C28_Witness ==
    \E k, j \in DOMAIN firings :
       /\ firings[k].pc = "done" /\ firings[k].attempts >= 2
       /\ firings[k].sleeps = firings[k].attempts - 1
       /\ firings[j].pc = "done" /\ firings[j].attempts = 1 /\ firings[j].oks = 1
       /\ firings[j].sleeps = 0

\* the value the service is to store for a setting given as v, default d
Stored(v, d) == IF v <= 0 THEN d ELSE v

StoredSettings(row, t) ==
    /\ row.Timeout = Stored(t.Timeout, DefaultTimeout)
    /\ row.RetryTimes = Stored(t.RetryTimes, DefaultRetryTimes)
    /\ row.RetryDelay = Stored(t.RetryDelay, DefaultRetryDelay)

\* C26: the job CreateTask or UpdateTask stores has each of timeout, retry
\* count and retry delay equal to the value given when that is positive
\* and to its default (60, 3, 5) when it is not.
C26_NonPositiveGetsDefault ==
    [][/\ \A t \in ConfigInputs :
            (DoCreateTask(t) /\ Len(tasks') > Len(tasks))
              => StoredSettings(tasks'[Len(tasks')], t)
       /\ \A id \in DOMAIN tasks, p \in ConfigPatches :
            (DoUpdateTask(id, p) /\ last'.valid /\ last'.err # "save")
              => StoredSettings(tasks'[id], Bind(tasks[id], p))]_vars

\* body contains "${x}" for an x that is not a supported variable
HasUnsupportedPlaceholder(body) ==
    \E i, j \in DOMAIN body :
       /\ i + 2 < j
       /\ body[i] = "$" /\ body[i + 1] = "{" /\ body[j] = "}"
       /\ \A m \in (i + 2)..(j - 1) : body[m] # "}"
       /\ SubSeq(body, i + 2, j - 1) \notin SupportedVars

\* C25: CreateTask and UpdateTask reject every job whose callback body
\* template has a placeholder outside the supported set, with an error and
\* before anything is stored or armed; no stored job has such a template.
C25_UnsupportedPlaceholderRejected ==
    [][/\ \A t \in ConfigInputs :
            (DoCreateTask(t) /\ HasUnsupportedPlaceholder(t.CallbackBody))
              => last'.err = "var" /\ UNCHANGED <<tasks, heap, entries, oneShots>>
       /\ \A id \in DOMAIN tasks, p \in ConfigPatches :
            (DoUpdateTask(id, p)
               /\ HasUnsupportedPlaceholder(Bind(tasks[id], p).CallbackBody))
              => last'.err = "var" /\ UNCHANGED <<tasks, heap, entries, oneShots>>
       /\ \A id \in Live(tasks') :
            ~HasUnsupportedPlaceholder(tasks'[id].CallbackBody)]_vars

\* the template with each placeholder occurrence replaced by its value and
\* the rest of the text kept, from position p on
RECURSIVE Substituted(_, _, _)
Substituted(body, data, p) ==
    IF p > Len(body) THEN <<>>
    ELSE IF \E key \in DOMAIN data :
              /\ p + Len(key) + 2 <= Len(body)
              /\ SubSeq(body, p, p + Len(key) + 2) = Placeholder(key)
    THEN LET key == CHOOSE x \in DOMAIN data :
                      /\ p + Len(x) + 2 <= Len(body)
                      /\ SubSeq(body, p, p + Len(x) + 2) = Placeholder(x)
         IN data[key] \o Substituted(body, data, p + Len(key) + 3)
    ELSE <<body[p]>> \o Substituted(body, data, p + 1)

\* C27: the callback body that is sent is the template with every
\* occurrence of each placeholder replaced by the stringified value from
\* the job and the completed log, all other text unchanged.
C27_BodyIsTemplateSubstituted ==
    \A k \in DOMAIN firings :
       firings[k].cb.pc \in {"send", "done"}
         => LET t == heap[firings[k].ptr]
            IN firings[k].cb.body
                 = Substituted(t.CallbackBody, CallbackData(t, firings[k]), 1)

\* firing k has started and is not over: it is executing, about to sleep
\* before a retry, or writing its results
InProgress(k) == firings[k].pc \in {"loop", "log", "stats", "save"}

\* C22: firings never block each other or the trigger clock: whatever
\* firings are in progress, a cron entry that is due and a one-shot that is
\* due can start their firing at once, and the clock reaches the next tick.
C22_FiringsDoNotBlock ==
    /\ \A e \in entries : e.next <= now => ENABLED CronRun(e)
    /\ \A o \in oneShots : o.due <= now => ENABLED OnceRun(o)
    /\ (now < MaxTime /\ \A e \in entries : e.next > now) => ENABLED Tick

\* a firing of job 1 is still in progress, at its retry sleep, while a
\* firing of job 2 and the firing of job 1's next tick have both started
C22_Witness ==
    \E k, j, m \in DOMAIN firings :
       /\ k < j /\ k < m
       /\ InProgress(k) /\ firings[k].i > 0
       /\ heap[firings[k].ptr].ID = 1 /\ heap[firings[j].ptr].ID = 2
       /\ heap[firings[m].ptr].ID = 1
       /\ firings[m].StartTime > firings[k].StartTime
       /\ InProgress(j) /\ InProgress(m)

\* C23: every spawned unit (one-shot firing, cron firing, manual firing,
\* callback delivery) catches its panic locally: the panic ends that unit
\* only, the process keeps running, and nothing of the other units or of
\* the store changes.
C23_PanicEndsOnlyItsUnit ==
    [][/\ Running'
       /\ \A k \in DOMAIN firings :
            (Panic(k) \/ PanicCallback(k))
              => /\ \A j \in DOMAIN firings \ {k} : firings'[j] = firings[j]
                 /\ "recovered" \in {firings'[k].pc, firings'[k].cb.pc}
                 /\ UNCHANGED <<tasks, entries, oneShots, logs, stats>>]_vars

\* a trigger firing panicked, a later manual firing ran to its end, and the
\* callback delivery of that one panicked in turn
C23_Witness ==
    \E k, j \in DOMAIN firings :
       /\ k < j
       /\ firings[k].src \in {"once", "cron"} /\ firings[k].pc = "recovered"
       /\ firings[j].src = "manual" /\ firings[j].pc = "done"
       /\ firings[j].cb.pc = "recovered"

\* the step is one of the callback delivery of firing k
CallbackStep(k) ==
    /\ firings[k].cb.pc \in {"render", "send"}
    /\ firings'[k].cb # firings[k].cb

\* C24: the delivery of a callback, however it ends, leaves the logs, the
\* stats, the stored jobs and the firing's own record as they were; a
\* firing makes at most one delivery request, and none when the job has no
\* callback URL.
C24_CallbackDoesNotReachJob ==
    [][/\ \A k \in DOMAIN firings :
            CallbackStep(k)
              => /\ UNCHANGED <<logs, stats, tasks, heap>>
                 /\ firings' = [firings EXCEPT ![k].cb = firings'[k].cb]
       /\ \A k \in DOMAIN firings' :
            /\ firings'[k].cb.requests <= 1
            /\ heap'[firings'[k].ptr].CallbackURL = ""
                 => firings'[k].cb = NoCallback]_vars

\* two firings of the job each wrote their log; the delivery of one got a
\* non-2xx answer and the delivery of the other a transport error
C24_Witness ==
    \E k, j \in DOMAIN firings :
       /\ firings[k].cb.pc = "done" /\ firings[k].cb.result = "non2xx"
       /\ firings[j].cb.pc = "done" /\ firings[j].cb.result = "transport"
       /\ firings[k].cb.requests = 1 /\ firings[j].cb.requests = 1
       /\ \E r \in DOMAIN logs : logs[r].firing = k
       /\ \E r \in DOMAIN logs : logs[r].firing = j

\* the sum of the RetryCount of the first n log rows that belong to job id
RECURSIVE LogRetrySum(_, _)
LogRetrySum(id, n) ==
    IF n = 0 THEN 0
    ELSE LogRetrySum(id, n - 1)
           + (IF logs[n].TaskID = id THEN logs[n].RetryCount ELSE 0)

\* C31: in every stored stats row TotalRuns = SuccessRuns + FailedRuns and
\* TimeoutCount <= FailedRuns, and once the (non-overlapping) firings made
\* so far are over, RetryCount is the sum of the RetryCount of the job's logs.
C31_StatsCountersAgree ==
    \A id \in DOMAIN stats :
       /\ stats[id].TotalRuns = stats[id].SuccessRuns + stats[id].FailedRuns
       /\ stats[id].TimeoutCount <= stats[id].FailedRuns
       /\ Idle => stats[id].RetryCount = LogRetrySum(id, Len(logs))

\* two firings of the job are over: one succeeded after retries, one failed
\* on a timeout, and retries have been counted
C31_Witness ==
    /\ Idle
    /\ \E id \in DOMAIN stats :
         /\ stats[id].TotalRuns = 2
         /\ stats[id].SuccessRuns = 1 /\ stats[id].FailedRuns = 1
         /\ stats[id].TimeoutCount = 1
         /\ stats[id].RetryCount >= 2
         /\ \E k \in DOMAIN firings :
              firings[k].oks = 1 /\ firings[k].timeouts >= 1

\* the range loop of firing k's sendCallback is over
Rendered(k) == firings[k].cb.pc \in {"send", "done"}

\* C32: callback rendering is deterministic: two deliveries with the same
\* template, job and completed log have the same body, whatever the order
\* in which the placeholders were substituted and also when a value
\* contains the text of a placeholder.
C32_RenderingDeterministic ==
    \A k, j \in DOMAIN firings :
       (/\ Rendered(k) /\ Rendered(j)
        /\ heap[firings[k].ptr].CallbackBody = heap[firings[j].ptr].CallbackBody
        /\ CallbackData(heap[firings[k].ptr], firings[k])
             = CallbackData(heap[firings[j].ptr], firings[j]))
         => firings[k].cb.body = firings[j].cb.body

====
